---- MODULE Spec2Model ----
(***************************************************************************)
(* Model of the Sidekick control loop (src/src/core/sidekick.py): one      *)
(* Sidekick session object with its lifecycle (setup, cleanup), the        *)
(* worker / tools / evaluator graph with its two routers, the messages     *)
(* reducer, the per-thread checkpoint and run_superstep.  Several          *)
(* run_superstep coroutines may be in flight on the session at once: the   *)
(* method is async, takes no lock and suspends inside graph.ainvoke.       *)
(***************************************************************************)
EXTENDS Naturals, Sequences, FiniteSets, TLC

VARIABLES
    is_initialized,   \* Sidekick._is_initialized
    browser,          \* Sidekick.browser: "none" (None) or "open"
    playwright,       \* Sidekick.playwright: "none" (None) or "started"
    tools,            \* Sidekick.tools: "none", "browser" (playwright tools), "all"
    graph,            \* Sidekick.graph: "none" or "compiled"
    memory,           \* Sidekick.memory: the latest checkpoint of thread sidekick_id
    rs,               \* the run_superstep coroutines, one record per slot
    started,          \* number of run_superstep calls made so far
    cleaning,         \* cleanup coroutines suspended in `await cleanup_browser`
    lastOp,           \* the lifecycle operation that completed last, with its effect
    ends,             \* the stored transcript at the last two superstep ends
    ui                \* SidekickUI: its flag and the Sidekick instances it made

vars == <<is_initialized, browser, playwright, tools, graph, memory, rs,
          started, cleaning, lastOp, ends, ui>>

-----------------------------------------------------------------------------
(* Bounds of the exploration *)

\* run_superstep coroutines that may be in flight at the same time
MaxCalls == 2
\* run_superstep calls over the life of the session
MaxSupersteps == 2
\* node executions explored over the supersteps that are held in the slots
MaxNodeRuns == 4
\* cleanup coroutines that may be suspended at the same time
MaxCleaning == 1
\* Sidekick instances the UI makes
MaxSessions == 2

Calls == 1..MaxCalls

-----------------------------------------------------------------------------
(* Message model: langchain_core.messages as used by the code *)

\* Python None for an Optional[str]
NONE == "None"
\* a message that has not been given an id yet
NoId == <<>>

\* tool_calls of a message: the attribute may be absent (HumanMessage,
\* ToolMessage, SystemMessage), None (the test's Mock) or a list
NoAttr == [kind |-> "absent", calls |-> <<>>]
NullCalls == [kind |-> "null", calls |-> <<>>]
CallList(cs) == [kind |-> "list", calls |-> cs]

HumanMessage(content) ==
    [type |-> "human", id |-> NoId, content |-> content, tool_calls |-> NoAttr,
     tool_call_id |-> NONE, by |-> "user"]

SystemMessage(content) ==
    [type |-> "system", id |-> NoId, content |-> content, tool_calls |-> NoAttr,
     tool_call_id |-> NONE, by |-> "worker"]

AIMessage(content, calls, by) ==
    [type |-> "ai", id |-> NoId, content |-> content, tool_calls |-> CallList(calls),
     tool_call_id |-> NONE, by |-> by]

ToolMessage(content, call_id) ==
    [type |-> "tool", id |-> NoId, content |-> content, tool_calls |-> NoAttr,
     tool_call_id |-> call_id, by |-> "tools"]

isinstance(m, type) == m.type = type

\* hasattr(m, "tool_calls") and m.tool_calls
HasToolCalls(m) ==
    /\ m.tool_calls.kind # "absent"
    /\ m.tool_calls.kind = "list"
    /\ Len(m.tool_calls.calls) > 0

Last(s) == s[Len(s)]

IsStrictPrefix(s, t) == Len(s) < Len(t) /\ SubSeq(t, 1, Len(s)) = s

IndexOfId(msgs, id) ==
    IF \E i \in 1..Len(msgs) : msgs[i].id = id
    THEN CHOOSE i \in 1..Len(msgs) :
            msgs[i].id = id /\ \A j \in 1..(i - 1) : msgs[j].id # id
    ELSE 0

\* add_messages gives every message that has no id a fresh uuid4; the model's
\* fresh id is the pair (superstep number, position the message is created at)
RECURSIVE AssignIds(_, _, _)
AssignIds(right, run, k) ==
    IF right = <<>> THEN <<>>
    ELSE LET m == Head(right)
             m1 == IF m.id = NoId THEN [m EXCEPT !.id = <<run, k>>] ELSE m
         IN  <<m1>> \o AssignIds(Tail(right), run, k + 1)

\* the merge of add_messages: a message whose id is already in the list
\* replaces the message of that id, any other message is appended
RECURSIVE MergeById(_, _)
MergeById(left, right) ==
    IF right = <<>> THEN left
    ELSE LET m == Head(right)
             i == IndexOfId(left, m.id)
         IN  MergeById(IF i > 0 THEN [left EXCEPT ![i] = m] ELSE Append(left, m),
                       Tail(right))

\* the reducer of State.messages
add_messages(left, right, run) ==
    MergeById(left, AssignIds(right, run, Len(left) + 1))

-----------------------------------------------------------------------------
(* State (src/src/core/state.py) *)

DEFAULT_CRITERIA == "The answer should be clear and accurate"

\* the channels of a thread that has no checkpoint yet
EmptyState ==
    [messages |-> <<>>, success_criteria |-> NONE, feedback_on_work |-> NONE,
     success_criteria_met |-> FALSE, user_input_needed |-> FALSE]

\* Python truth of an Optional[str]: None and "" are false
Truthy(str) == str # NONE /\ str # ""

\* faulty variant: a criteria of blanks counts as empty
create_initial_state_strips(message, success_criteria) ==
    [messages |-> message,
     success_criteria |-> IF success_criteria \in {"", " "} THEN DEFAULT_CRITERIA
                          ELSE success_criteria,
     feedback_on_work |-> NONE,
     success_criteria_met |-> FALSE,
     user_input_needed |-> FALSE]

\* `success_criteria or "The answer should be clear and accurate"`; "messages"
\* is the bare string, which add_messages coerces to one HumanMessage
create_initial_state(message, success_criteria) ==
    [messages |-> message,
     success_criteria |-> IF Truthy(success_criteria) THEN success_criteria
                          ELSE DEFAULT_CRITERIA,
     feedback_on_work |-> NONE,
     success_criteria_met |-> FALSE,
     user_input_needed |-> FALSE]

\* faulty variant: the checkpoint of the thread is not resumed
ApplyInput_fresh_thread(loaded, input, run) ==
    [messages |-> add_messages(<<>>, <<HumanMessage(input.messages)>>, run),
     success_criteria |-> input.success_criteria,
     feedback_on_work |-> input.feedback_on_work,
     success_criteria_met |-> input.success_criteria_met,
     user_input_needed |-> input.user_input_needed]

\* faulty variant: the stored feedback_on_work survives the seeding
ApplyInput_keeps_feedback(loaded, input, run) ==
    [messages |-> add_messages(loaded.messages, <<HumanMessage(input.messages)>>, run),
     success_criteria |-> input.success_criteria,
     feedback_on_work |-> loaded.feedback_on_work,
     success_criteria_met |-> input.success_criteria_met,
     user_input_needed |-> input.user_input_needed]

\* graph.ainvoke(state, config): the input is written over the channels loaded
\* from the checkpoint, messages through its reducer, scalars by overwrite
ApplyInput(loaded, input, run) ==
    [messages |-> add_messages(loaded.messages, <<HumanMessage(input.messages)>>, run),
     success_criteria |-> input.success_criteria,
     feedback_on_work |-> input.feedback_on_work,
     success_criteria_met |-> input.success_criteria_met,
     user_input_needed |-> input.user_input_needed]

-----------------------------------------------------------------------------
(* Worker node and its router *)

\* the prompt text: the criteria, and the rejection section when
\* state.get("feedback_on_work") is truthy
create_system_message(state) ==
    "criteria: " \o state.success_criteria \o
        (IF Truthy(state.feedback_on_work)
         THEN " rejected: " \o state.feedback_on_work
         ELSE "")

FirstSystem(msgs) ==
    IF \E i \in 1..Len(msgs) : isinstance(msgs[i], "system")
    THEN CHOOSE i \in 1..Len(msgs) :
            isinstance(msgs[i], "system")
            /\ \A j \in 1..(i - 1) : ~isinstance(msgs[j], "system")
    ELSE 0

\* the loop of worker(): the first SystemMessage of state["messages"] gets the
\* new content in place (the object is the one the state holds)
WorkerScan(state) ==
    LET i == FirstSystem(state.messages)
    IN  IF i > 0
        THEN [state EXCEPT !.messages[i].content = create_system_message(state)]
        ELSE state

\* faulty variant: a SystemMessage is put at the head whether one is found or not
WorkerPrompt_always_prepends(state) ==
    <<SystemMessage(create_system_message(state))>> \o WorkerScan(state).messages

\* the list handed to worker_llm_with_tools.invoke
WorkerPrompt(state) ==
    IF FirstSystem(state.messages) > 0
    THEN WorkerScan(state).messages
    ELSE <<SystemMessage(create_system_message(state))>> \o state.messages

\* faulty variant: the prompt's SystemMessage is returned for merging with the reply
worker_stores_prompt(state, response) ==
    [messages |-> <<SystemMessage(create_system_message(state)), response>>]

\* what worker() returns for merging
worker(state, response) == [messages |-> <<response>>]

\* faulty variant: any message of the transcript is looked at, not the last one
worker_router_any_message(state) ==
    IF \E i \in 1..Len(state.messages) : HasToolCalls(state.messages[i])
    THEN "tools" ELSE "evaluator"

\* hasattr(last_message, "tool_calls") and last_message.tool_calls
worker_router(state) ==
    IF HasToolCalls(Last(state.messages)) THEN "tools" ELSE "evaluator"

\* the names ToolNode was built with, and a name that is not among them
RegisteredTools == {"send_push_notification", "Python_REPL"}
UnknownTool == "no_such_tool"

\* the tools whose external call is made with a timeout: push() posts with
\* timeout=10; no other tool is given one, nor is ToolNode
ToolsWithTimeout == {"send_push_notification"}

\* the replies the worker LLM may give: a final answer, or tool calls
WorkerReplies ==
    { AIMessage("answer", <<>>, "worker"),
      AIMessage("", <<[id |-> "call_1", name |-> "send_push_notification"],
                      [id |-> "call_2", name |-> UnknownTool]>>, "worker"),
      AIMessage("", <<[id |-> "call_3", name |-> "Python_REPL"]>>, "worker") }

-----------------------------------------------------------------------------
(* Tools node: ToolNode(tools=self.tools) *)

\* the ToolMessage of one tool call; an unknown name or a tool that raises
\* gives error content, not an exception
ToolResult(call, raises) ==
    ToolMessage(IF call.name \notin RegisteredTools
                THEN "Error: " \o call.name \o " is not a valid tool"
                ELSE IF raises THEN "Error: tool failed" ELSE "result",
                call.id)

\* the orders in which n concurrent tool calls may complete
CompletionOrders(n) ==
    { order \in [1..n -> 1..n] : \A i \in 1..n : \E k \in 1..n : order[k] = i }

\* the calls run concurrently: the k-th to complete is call order[k]
Completions(calls, raises, order) ==
    [k \in 1..Len(calls) |->
        [index |-> order[k], message |-> ToolResult(calls[order[k]], raises)]]

\* the results are collected by the position of their call, not by the time
\* they arrived
Gather(done) ==
    [i \in 1..Len(done) |->
        done[CHOOSE k \in 1..Len(done) : done[k].index = i].message]

IsRegistered(call) == call.name \in RegisteredTools

\* faulty variant: a call that names no registered tool gets no ToolMessage
tools_node_skips_unknown(state, raises, order) ==
    LET calls == SelectSeq(Last(state.messages).tool_calls.calls, IsRegistered)
    IN  [messages |-> [i \in 1..Len(calls) |-> ToolResult(calls[i], raises)]]

\* faulty variant: every result is the result of the call that completed first
tools_node_first_completion(state, raises, order) ==
    LET calls == Last(state.messages).tool_calls.calls
        done == Completions(calls, raises, order)
    IN  [messages |-> [i \in 1..Len(calls) |-> done[1].message]]

tools_node(state, raises, order) ==
    LET calls == Last(state.messages).tool_calls.calls
    IN  [messages |-> Gather(Completions(calls, raises, order))]

-----------------------------------------------------------------------------
(* Evaluator node and its router *)

FEEDBACK_PREFIX == "Evaluator Feedback on this answer: "

\* faulty variant: a ToolMessage gets a line too
FormatLine_renders_tools(message) ==
    IF isinstance(message, "human") THEN <<"User: " \o message.content>>
    ELSE IF isinstance(message, "ai")
    THEN <<"Assistant: " \o (IF message.content = "" THEN "[Tools use]"
                              ELSE message.content)>>
    ELSE IF isinstance(message, "tool") THEN <<"Tool: " \o message.content>>
    ELSE <<>>

\* the line _format_conversation adds for one message, if any:
\* `message.content or "[Tools use]"` for an AIMessage
FormatLine(message) ==
    IF isinstance(message, "human") THEN <<"User: " \o message.content>>
    ELSE IF isinstance(message, "ai")
    THEN <<"Assistant: " \o (IF message.content = "" THEN "[Tools use]"
                              ELSE message.content)>>
    ELSE <<>>

\* _format_conversation: the lines that follow the heading, in order
RECURSIVE format_conversation(_)
format_conversation(messages) ==
    IF messages = <<>> THEN <<>>
    ELSE FormatLine(Head(messages)) \o format_conversation(Tail(messages))

\* the records the structured evaluator LLM may return (EvaluatorOutput)
EvaluatorOutput(feedback, met, needed) ==
    [feedback |-> feedback, success_criteria_met |-> met, user_input_needed |-> needed]

EvaluatorOutputs ==
    { EvaluatorOutput("try again", FALSE, FALSE),
      EvaluatorOutput("", FALSE, FALSE),
      EvaluatorOutput("good", TRUE, FALSE),
      EvaluatorOutput("unclear", FALSE, TRUE),
      EvaluatorOutput("", TRUE, TRUE) }

\* faulty variant: user_input_needed is not part of the update
evaluator_keeps_needed(state, eval_result) ==
    [messages |-> <<AIMessage(FEEDBACK_PREFIX \o eval_result.feedback, <<>>, "evaluator")>>,
     feedback_on_work |-> eval_result.feedback,
     success_criteria_met |-> eval_result.success_criteria_met,
     user_input_needed |-> state.user_input_needed]

\* what evaluator() returns for merging
evaluator(state, eval_result) ==
    [messages |-> <<AIMessage(FEEDBACK_PREFIX \o eval_result.feedback, <<>>, "evaluator")>>,
     feedback_on_work |-> eval_result.feedback,
     success_criteria_met |-> eval_result.success_criteria_met,
     user_input_needed |-> eval_result.user_input_needed]

\* faulty variant: `and` where the code has `or`
route_on_both_flags(state) ==
    IF state.success_criteria_met /\ state.user_input_needed THEN "END" ELSE "worker"

route_based_on_evaluation(state) ==
    IF state.success_criteria_met \/ state.user_input_needed THEN "END" ELSE "worker"

\* faulty variant: a merge of messages also clears feedback_on_work
MergeMessages_clears_feedback(state, update, run) ==
    [state EXCEPT !.messages = add_messages(state.messages, update.messages, run),
                  !.feedback_on_work = NONE]

\* the merge of a node's update into the channels: messages by add_messages,
\* every scalar the update names by overwrite
MergeMessages(state, update, run) ==
    [state EXCEPT !.messages = add_messages(state.messages, update.messages, run)]

\* faulty variant: the merge of the evaluator's update resets the criteria
MergeEvaluation_resets_criteria(state, update, run) ==
    [MergeMessages(state, update, run) EXCEPT
        !.success_criteria = DEFAULT_CRITERIA,
        !.feedback_on_work = update.feedback_on_work,
        !.success_criteria_met = update.success_criteria_met,
        !.user_input_needed = update.user_input_needed]

MergeEvaluation(state, update, run) ==
    [MergeMessages(state, update, run) EXCEPT
        !.feedback_on_work = update.feedback_on_work,
        !.success_criteria_met = update.success_criteria_met,
        !.user_input_needed = update.user_input_needed]

-----------------------------------------------------------------------------
(* The graph of build_graph *)

\* START -> worker; worker -> worker_router; tools -> worker;
\* evaluator -> route_based_on_evaluation, whose "END" is the graph's END
EntryNode == "worker"

\* faulty variant: the evaluator's edge stops the graph on success_criteria_met alone
NextNode_met_only(node, state) ==
    CASE node = "worker" -> worker_router(state)
      [] node = "tools" -> "worker"
      [] node = "evaluator" -> IF state.success_criteria_met THEN "END" ELSE "worker"

\* faulty variant: the edge out of tools leads to the evaluator
NextNode_tools_to_evaluator(node, state) ==
    CASE node = "worker" -> worker_router(state)
      [] node = "tools" -> "evaluator"
      [] node = "evaluator" -> route_based_on_evaluation(state)

\* faulty variant: the edge out of the worker always leads to the evaluator
NextNode_worker_to_evaluator(node, state) ==
    CASE node = "worker" -> "evaluator"
      [] node = "tools" -> "worker"
      [] node = "evaluator" -> route_based_on_evaluation(state)

NextNode(node, state) ==
    CASE node = "worker" -> worker_router(state)
      [] node = "tools" -> "worker"
      [] node = "evaluator" -> route_based_on_evaluation(state)

-----------------------------------------------------------------------------
(* Session lifecycle: Sidekick.__init__, setup, cleanup *)

SessionNow ==
    [is_initialized |-> is_initialized, browser |-> browser,
     playwright |-> playwright, tools |-> tools, graph |-> graph]

\* SidekickUI.__init__ (_is_initialized False), the number of Sidekick
\* instances the UI has made in place of the first, the number of run_superstep
\* calls made before the instance it holds now was made, and the checkpoint
\* of the instance it held before
UIInit == [initialized |-> FALSE, sessions |-> 0, boundary |-> 0, old |-> EmptyState]

\* __init__: nothing acquired, not initialized
NewSession ==
    [is_initialized |-> FALSE, browser |-> "none", playwright |-> "none",
     tools |-> "none", graph |-> "none"]

\* the step of setup() that raises, in the order setup() takes them, or "ok"
SetupOutcomes == {"config", "playwright_tools", "other_tools", "llm", "build_graph", "ok"}

\* the fields setup() has assigned when it stops at `outcome`
setup(s, outcome) ==
    IF outcome \in {"config", "playwright_tools"} THEN s
    ELSE IF outcome = "other_tools"
    THEN [s EXCEPT !.tools = "browser", !.browser = "open", !.playwright = "started"]
    ELSE IF outcome \in {"llm", "build_graph"}
    THEN [s EXCEPT !.tools = "all", !.browser = "open", !.playwright = "started"]
    ELSE [s EXCEPT !.tools = "all", !.browser = "open", !.playwright = "started",
                   !.graph = "compiled", !.is_initialized = TRUE]

\* faulty variant: no try/except around the close and the stop
cleanup_browser_unguarded(b, p, closeRaises) ==
    [raised |-> closeRaises,
     closed |-> b # "none" /\ ~closeRaises,
     stopped |-> p # "none" /\ ~closeRaises]

\* cleanup_browser: closes the browser, then stops playwright; an exception of
\* either is caught and printed, so the stop is skipped when the close raises
cleanup_browser(b, p, closeRaises) ==
    [raised |-> FALSE,
     closed |-> b # "none" /\ ~closeRaises,
     stopped |-> p # "none" /\ ~closeRaises]

\* `if self.browser and self.playwright`
CleanupGuard(s) == s.browser # "none" /\ s.playwright # "none"

\* cleanup() once cleanup_browser has returned or raised: the two fields are
\* cleared unless it raised, and `finally` clears _is_initialized
cleanup(s, r) ==
    IF r.raised
    THEN [s EXCEPT !.is_initialized = FALSE]
    ELSE [s EXCEPT !.browser = "none", !.playwright = "none", !.is_initialized = FALSE]

\* cleanup() when the guard is false: only the `finally`
cleanup_skip(s) == [s EXCEPT !.is_initialized = FALSE]

CleanSession(s) == s.browser = "none" /\ s.playwright = "none" /\ ~s.is_initialized

\* what is recorded of a lifecycle operation when it completes: op, whether it
\* raised, and for a cleanup whether it called cleanup_browser (released),
\* whether the session it was called on held nothing and was not initialized
\* (was_clean) and whether it left every field of the session as it was (kept)
NoOp == [op |-> "none", raised |-> FALSE, released |-> FALSE, was_clean |-> FALSE,
         kept |-> FALSE]

SetSessionInit ==
    /\ is_initialized = NewSession.is_initialized
    /\ browser = NewSession.browser
    /\ playwright = NewSession.playwright
    /\ tools = NewSession.tools
    /\ graph = NewSession.graph

SetSession(s) ==
    /\ is_initialized' = s.is_initialized
    /\ browser' = s.browser
    /\ playwright' = s.playwright
    /\ tools' = s.tools
    /\ graph' = s.graph

Setup(outcome) ==
    /\ SetSession(setup(SessionNow, outcome))
    /\ lastOp' = [NoOp EXCEPT !.op = IF outcome = "ok" THEN "setup" ELSE "setup_failed",
                              !.raised = outcome # "ok"]
    /\ UNCHANGED <<memory, rs, started, cleaning, ends, ui>>

\* cleanup() on a session that holds no browser: no suspension point
CleanupSkip ==
    /\ ~CleanupGuard(SessionNow)
    /\ SetSession(cleanup_skip(SessionNow))
    /\ lastOp' = [op |-> "cleanup", raised |-> FALSE, released |-> FALSE,
                  was_clean |-> CleanSession(SessionNow),
                  kept |-> cleanup_skip(SessionNow) = SessionNow]
    /\ UNCHANGED <<memory, rs, started, cleaning, ends, ui>>

\* cleanup() passes the guard and suspends in `await cleanup_browser(...)`
CleanupBegin ==
    /\ CleanupGuard(SessionNow)
    /\ cleaning < MaxCleaning
    /\ cleaning' = cleaning + 1
    /\ UNCHANGED <<is_initialized, browser, playwright, tools, graph, memory, rs,
                   started, lastOp, ends, ui>>

\* cleanup_browser returns and cleanup() runs to its end
\* (it was called with the browser and the playwright the guard found set)
CleanupFinish(closeRaises) ==
    /\ cleaning > 0
    /\ LET r == cleanup_browser("open", "started", closeRaises)
       IN  /\ SetSession(cleanup(SessionNow, r))
           \* `except Exception` in cleanup(): nothing reaches the caller
           /\ lastOp' = [op |-> "cleanup", raised |-> FALSE, released |-> TRUE,
                         was_clean |-> FALSE, kept |-> FALSE]
    /\ cleaning' = cleaning - 1
    /\ UNCHANGED <<memory, rs, started, ends, ui>>

-----------------------------------------------------------------------------
(* run_superstep *)

\* what the callers pass
CallInputs ==
    { [message |-> "task", success_criteria |-> "", history |-> <<>>],
      [message |-> "more", success_criteria |-> "be brief",
       history |-> <<[role |-> "user", content |-> "earlier"]>>] }

IdleCall ==
    [pc |-> "idle",          \* idle, running, done (returned), failed (raised)
     node |-> "none",        \* the node the graph runs next, END when it stopped
     run |-> 0,              \* which call this is (1, 2, ...)
     session |-> 0,          \* the Sidekick instance the call was made on
     st |-> EmptyState,      \* the channel values of this graph run
     message |-> "",
     success_criteria |-> "",  \* the criteria the caller passed
     history |-> <<>>,       \* the caller's history list
     arg_history |-> <<>>,   \* its value when the call was made
     result |-> <<>>,        \* the returned list
     error |-> "none",       \* the RuntimeError raised
     ui |-> <<>>,            \* what process_message hands back to the chatbot
     path |-> <<>>]          \* the nodes this run has executed, in order

\* faulty variant: readiness is read off the graph, which cleanup() leaves in place
NotReady_no_graph == graph = "none"

\* `if not self._is_initialized: raise RuntimeError("Sidekick not initialized...")`
NotReady == ~is_initialized

\* faulty variant: the reply is taken one position too late
FormatResults_off_by_one(message, history, result) ==
    LET n == Len(result.messages)
        user == [role |-> "user", content |-> message]
        reply == [role |-> "assistant", content |-> result.messages[n].content]
        feedback == [role |-> "assistant", content |-> result.messages[n].content]
    IN  history \o <<user, reply, feedback>>

\* history + [user, reply, feedback] from the graph's result
FormatResults(message, history, result) ==
    LET n == Len(result.messages)
        user == [role |-> "user", content |-> message]
        reply == [role |-> "assistant", content |-> result.messages[n - 1].content]
        feedback == [role |-> "assistant", content |-> result.messages[n].content]
    IN  history \o <<user, reply, feedback>>

\* how the `await sidekick.run_superstep(...)` of process_message ends
Raised(error) == [raised |-> TRUE, error |-> error, results |-> <<>>]
Returned(results) == [raised |-> FALSE, error |-> "none", results |-> results]

\* str(e) of the RuntimeError that run_superstep raises
ErrorText(error) ==
    IF error = "not_initialized"
    THEN "Sidekick not initialized. Call setup() first."
    ELSE "Failed to run superstep"

ERROR_PREFIX == "Sorry, I encountered an error: "

\* faulty variant: the handler returns the error entry alone
process_message_drops_history(message, history, outcome) ==
    IF message \in {"", " "} THEN history
    ELSE IF outcome.raised
    THEN <<[role |-> "assistant", content |-> ERROR_PREFIX \o ErrorText(outcome.error)]>>
    ELSE outcome.results

\* SidekickUI.process_message: the history it returns (the Sidekick it returns
\* is the one it was given); a blank message returns at once, an exception of
\* run_superstep becomes an assistant entry after the history
process_message(message, history, outcome) ==
    IF message \in {"", " "} THEN history
    ELSE IF outcome.raised
    THEN history \o
         <<[role |-> "assistant", content |-> ERROR_PREFIX \o ErrorText(outcome.error)]>>
    ELSE outcome.results

\* the call has neither returned nor raised
Busy(c) == rs[c].pc \in {"running", "blocked"}

\* the checkpoint of the Sidekick instance the call was made on
SessionMemory(c) == IF rs[c].session = ui.sessions THEN memory ELSE ui.old

\* a superstep ended (returned or raised) with `stored` in the checkpoint
EndSuperstep(c, stored) ==
    ends' = [n |-> IF ends.n < 2 THEN ends.n + 1 ELSE 2,
             prev |-> ends.cur, cur |-> stored.messages, run |-> rs[c].run]

\* a caller invokes run_superstep: the readiness check, create_initial_state
\* and the start of graph.ainvoke, which loads the thread's checkpoint, writes
\* the input over it and saves it
CallSuperstep(c, message, success_criteria, history) ==
    /\ started < MaxSupersteps
    /\ ~Busy(c)
    /\ \A d \in 1..(c - 1) : Busy(d)
    /\ started' = started + 1
    /\ LET call == [IdleCall EXCEPT !.run = started + 1, !.message = message,
                                    !.session = ui.sessions,
                                    !.success_criteria = success_criteria,
                                    !.history = history, !.arg_history = history]
       IN  IF NotReady
           THEN /\ rs' = [rs EXCEPT ![c] = [call EXCEPT
                                    !.pc = "failed", !.error = "not_initialized",
                                    !.ui = process_message(message, history,
                                                           Raised("not_initialized"))]]
                /\ UNCHANGED memory
           ELSE IF graph = "none"
           THEN /\ rs' = [rs EXCEPT ![c] = [call EXCEPT
                                    !.pc = "failed", !.error = "superstep_failed",
                                    !.ui = process_message(message, history,
                                                           Raised("superstep_failed"))]]
                /\ UNCHANGED memory
           ELSE LET st0 == ApplyInput(memory,
                                      create_initial_state(message, success_criteria),
                                      started + 1)
                IN  /\ rs' = [rs EXCEPT ![c] = [call EXCEPT !.pc = "running",
                                                           !.node = EntryNode,
                                                           !.st = st0]]
                    /\ memory' = st0
    /\ UNCHANGED <<is_initialized, browser, playwright, tools, graph, cleaning,
                   lastOp, ends, ui>>

\* the graph of a Sidekick instance saves to the MemorySaver of that instance
\* under its sidekick_id: the instance the UI holds now, or the one it held
\* before
SaveCheckpoint(c, st1) ==
    IF rs[c].session = ui.sessions
    THEN memory' = st1 /\ UNCHANGED ui
    ELSE ui' = [ui EXCEPT !.old = st1] /\ UNCHANGED memory

\* one node of the graph ran to its end: its update is merged, the checkpoint
\* is saved and the edge out of the node is taken
NodeDone(c, name, st1, flagged, order) ==
    /\ rs' = [rs EXCEPT ![c].st = st1,
                        ![c].node = NextNode(name, st1),
                        ![c].path = Append(@, [node |-> name, flagged |-> flagged,
                                               order |-> order])]
    /\ SaveCheckpoint(c, st1)
    /\ UNCHANGED <<is_initialized, browser, playwright, tools, graph, started,
                   cleaning, lastOp, ends>>

RECURSIVE NodeRuns(_)
NodeRuns(cs) ==
    IF cs = {} THEN 0
    ELSE LET c == CHOOSE x \in cs : TRUE
         IN  Len(rs[c].path) + NodeRuns(cs \ {c})

CanRun(c, name) ==
    /\ rs[c].pc = "running"
    /\ rs[c].node = name
    /\ NodeRuns(Calls) < MaxNodeRuns

WorkerStep(c, response) ==
    /\ CanRun(c, "worker")
    /\ LET scanned == WorkerScan(rs[c].st)
           update == worker(scanned, response)
       IN  NodeDone(c, "worker", MergeMessages(scanned, update, rs[c].run), FALSE,
                    <<>>)

ToolsStep(c, raises, order) ==
    /\ CanRun(c, "tools")
    /\ NodeDone(c, "tools",
                MergeMessages(rs[c].st, tools_node(rs[c].st, raises, order), rs[c].run),
                FALSE, order)

EvaluatorStep(c, eval_result) ==
    /\ CanRun(c, "evaluator")
    /\ NodeDone(c, "evaluator",
                MergeEvaluation(rs[c].st, evaluator(rs[c].st, eval_result), rs[c].run),
                eval_result.success_criteria_met \/ eval_result.user_input_needed,
                <<>>)

\* the calls of the last message that never complete once their tool hangs:
\* the tool is registered and nothing bounds its call
Unbounded(state) ==
    LET calls == Last(state.messages).tool_calls.calls
    IN  { k \in 1..Len(calls) :
            calls[k].name \in RegisteredTools \ ToolsWithTimeout }

\* a tool call of the tools node does not complete: ToolNode awaits all of its
\* calls, so the node does not return and graph.ainvoke stays suspended
ToolsHang(c) ==
    /\ CanRun(c, "tools")
    /\ Unbounded(rs[c].st) # {}
    /\ rs' = [rs EXCEPT ![c].pc = "blocked"]
    /\ UNCHANGED <<is_initialized, browser, playwright, tools, graph, memory,
                   started, cleaning, lastOp, ends, ui>>

\* faulty variant: the failing node's run leaves a rejection in the channels
NodeFails_commits_feedback(c, name) ==
    /\ CanRun(c, name)
    /\ name \in {"worker", "evaluator"}
    /\ rs' = [rs EXCEPT ![c].pc = "failed", ![c].error = "superstep_failed",
                        ![c].ui = process_message(rs[c].message, rs[c].history,
                                                  Raised("superstep_failed")),
                        ![c].st.feedback_on_work = "failed"]
    /\ memory' = [memory EXCEPT !.feedback_on_work = "failed"]
    /\ EndSuperstep(c, SessionMemory(c))
    /\ UNCHANGED <<is_initialized, browser, playwright, tools, graph,
                   started, cleaning, lastOp, ui>>

\* the LLM call of the worker or of the evaluator raises: the node commits
\* nothing and run_superstep raises RuntimeError("Failed to run superstep")
NodeFails(c, name) ==
    /\ CanRun(c, name)
    /\ name \in {"worker", "evaluator"}
    /\ rs' = [rs EXCEPT ![c].pc = "failed", ![c].error = "superstep_failed",
                        ![c].ui = process_message(rs[c].message, rs[c].history,
                                                  Raised("superstep_failed"))]
    /\ EndSuperstep(c, SessionMemory(c))
    /\ UNCHANGED <<is_initialized, browser, playwright, tools, graph, memory,
                   started, cleaning, lastOp, ui>>

\* the graph stopped at END: run_superstep formats and returns
ReturnSuperstep(c) ==
    /\ rs[c].pc = "running"
    /\ rs[c].node = "END"
    /\ LET results == FormatResults(rs[c].message, rs[c].history, rs[c].st)
       IN  rs' = [rs EXCEPT ![c].pc = "done",
                            ![c].result = results,
                            ![c].ui = process_message(rs[c].message, rs[c].history,
                                                      Returned(results))]
    /\ EndSuperstep(c, SessionMemory(c))
    /\ UNCHANGED <<is_initialized, browser, playwright, tools, graph, memory,
                   started, cleaning, lastOp, ui>>

-----------------------------------------------------------------------------
(* The program *)

Init ==
    /\ SetSessionInit
    /\ memory = EmptyState
    /\ rs = [c \in Calls |-> IdleCall]
    /\ started = 0
    /\ cleaning = 0
    /\ lastOp = NoOp
    /\ ends = [n |-> 0, prev |-> <<>>, cur |-> <<>>, run |-> 0]
    /\ ui = UIInit

DoSetup == \E outcome \in SetupOutcomes : Setup(outcome)

DoCleanupFinish == \E closeRaises \in BOOLEAN : CleanupFinish(closeRaises)

DoCall ==
    \E c \in Calls, in \in CallInputs :
        CallSuperstep(c, in.message, in.success_criteria, in.history)

DoWorker == \E c \in Calls, response \in WorkerReplies : WorkerStep(c, response)

DoTools ==
    \E c \in Calls, raises \in BOOLEAN :
        /\ CanRun(c, "tools")
        /\ \E order \in CompletionOrders(Len(Last(rs[c].st.messages).tool_calls.calls)) :
              ToolsStep(c, raises, order)

DoToolsHang == \E c \in Calls : ToolsHang(c)

DoEvaluator == \E c \in Calls, r \in EvaluatorOutputs : EvaluatorStep(c, r)

DoNodeFails == \E c \in Calls, name \in {"worker", "evaluator"} : NodeFails(c, name)

DoReturn == \E c \in Calls : ReturnSuperstep(c)

Next ==
    \/ DoSetup
    \/ CleanupSkip
    \/ CleanupBegin
    \/ DoCleanupFinish
    \/ DoCall
    \/ DoWorker
    \/ DoTools
    \/ DoToolsHang
    \/ DoEvaluator
    \/ DoNodeFails
    \/ DoReturn

Spec == Init /\ [][Next]_vars

-----------------------------------------------------------------------------
(* The two routers and create_initial_state as functions: applied to inputs  *)
(* drawn from bounded sets                                                   *)

\* a Mock whose tool_calls is None, as the tests build it
MockMessage ==
    [type |-> "mock", id |-> NoId, content |-> "", tool_calls |-> NullCalls,
     tool_call_id |-> NONE, by |-> "test"]

RouterMessages ==
    WorkerReplies \cup
    { HumanMessage("task"), ToolMessage("result", "call_1"), MockMessage,
      SystemMessage("criteria: be brief"),
      AIMessage("", <<[id |-> "call_1", name |-> "send_push_notification"]>>, "worker"),
      AIMessage("Evaluator Feedback on this answer: try again", <<>>, "evaluator") }

\* transcripts of one or two messages, with at most one SystemMessage
RouterTranscripts ==
    { <<m>> : m \in RouterMessages } \cup
    { <<m1, m2>> : m1 \in RouterMessages,
                   m2 \in { m \in RouterMessages : ~isinstance(m, "system") } } \cup
    { <<m1, m2>> : m1 \in { m \in RouterMessages : ~isinstance(m, "system") },
                   m2 \in RouterMessages }

RouterStates ==
    { [messages |-> ms, success_criteria |-> "be brief",
       feedback_on_work |-> IF met \/ needed THEN NONE ELSE "try again",
       success_criteria_met |-> met, user_input_needed |-> needed] :
        ms \in RouterTranscripts, met \in BOOLEAN, needed \in BOOLEAN }

InitRouter ==
    /\ SetSessionInit
    /\ memory = EmptyState
    /\ \E state \in RouterStates :
          rs = [c \in Calls |-> IF c = 1
                                THEN [IdleCall EXCEPT !.pc = "input", !.st = state]
                                ELSE IdleCall]
    /\ started = 0
    /\ cleaning = 0
    /\ lastOp = NoOp
    /\ ends = [n |-> 0, prev |-> <<>>, cur |-> <<>>, run |-> 0]
    /\ ui = UIInit

ApplyWorkerRouter ==
    /\ rs[1].pc = "input"
    /\ rs' = [rs EXCEPT ![1].pc = "worker_router",
                        ![1].node = worker_router(rs[1].st)]
    /\ UNCHANGED <<is_initialized, browser, playwright, tools, graph, memory,
                   started, cleaning, lastOp, ends, ui>>

ApplyEvaluationRouter ==
    /\ rs[1].pc = "input"
    /\ rs' = [rs EXCEPT ![1].pc = "route_based_on_evaluation",
                        ![1].node = route_based_on_evaluation(rs[1].st)]
    /\ UNCHANGED <<is_initialized, browser, playwright, tools, graph, memory,
                   started, cleaning, lastOp, ends, ui>>

\* the arguments create_initial_state is applied to
InitialStateInputs ==
    { [message |-> m, success_criteria |-> sc] :
        m \in {"task", "more", ""},
        sc \in {"", " ", "be brief", "The answer should be clear and accurate"} }

ApplyCreateInitialState ==
    /\ rs[1].pc = "input"
    /\ \E in \in InitialStateInputs :
          rs' = [rs EXCEPT ![1].pc = "create_initial_state",
                           ![1].message = in.message,
                           ![1].success_criteria = in.success_criteria,
                           ![1].st = create_initial_state(in.message,
                                                          in.success_criteria)]
    /\ UNCHANGED <<is_initialized, browser, playwright, tools, graph, memory,
                   started, cleaning, lastOp, ends, ui>>

\* worker() up to its LLM call: `result` holds the list handed to invoke
ApplyWorker ==
    /\ rs[1].pc = "input"
    /\ rs' = [rs EXCEPT ![1].pc = "worker",
                        ![1].result = WorkerPrompt(rs[1].st)]
    /\ UNCHANGED <<is_initialized, browser, playwright, tools, graph, memory,
                   started, cleaning, lastOp, ends, ui>>

\* _format_conversation applied: `result` holds the lines
ApplyFormatConversation ==
    /\ rs[1].pc = "input"
    /\ rs' = [rs EXCEPT ![1].pc = "format_conversation",
                        ![1].result = format_conversation(rs[1].st.messages)]
    /\ UNCHANGED <<is_initialized, browser, playwright, tools, graph, memory,
                   started, cleaning, lastOp, ends, ui>>

NextRouter ==
    \/ ApplyWorkerRouter
    \/ ApplyEvaluationRouter
    \/ ApplyCreateInitialState
    \/ ApplyWorker
    \/ ApplyFormatConversation

RouterSpec == InitRouter /\ [][NextRouter]_vars

-----------------------------------------------------------------------------
(* The UI makes and replaces Sidekick instances: SidekickUI.setup and reset.  *)
(* A new instance has its own sidekick_id and its own MemorySaver; the calls  *)
(* that are in flight on the instance it replaces go on with that instance.   *)

\* the UI holds a new Sidekick(): the one it held is kept aside with its
\* checkpoint, the new one starts with an empty MemorySaver
NewSidekick(initialized) ==
    /\ ui' = [initialized |-> initialized, sessions |-> ui.sessions + 1,
              boundary |-> started, old |-> memory]
    /\ memory' = EmptyState

\* SidekickUI.setup: a Sidekick is made and set up when the UI's flag is false
UISetup(outcome) ==
    /\ ~ui.initialized
    /\ ui.sessions < MaxSessions
    /\ NewSidekick(outcome = "ok")
    /\ SetSession(setup(NewSession, outcome))
    /\ lastOp' = [NoOp EXCEPT !.op = IF outcome = "ok" THEN "setup" ELSE "setup_failed",
                              !.raised = outcome # "ok"]
    /\ UNCHANGED <<rs, started, cleaning, ends>>

\* the instance the UI holds after `if self.sidekick and self._is_initialized:
\* await self.sidekick.cleanup()`
ResetCleanup(s) ==
    IF ~ui.initialized THEN s
    ELSE IF CleanupGuard(s)
    THEN cleanup(s, cleanup_browser(s.browser, s.playwright, FALSE))
    ELSE cleanup_skip(s)

\* faulty variant: the new instance is given the checkpoint of the old one
UIReset_keeps_checkpoint(outcome) ==
    /\ ui.sessions >= 1
    /\ IF outcome = "ok"
       THEN /\ ui.sessions < MaxSessions
            /\ ui' = [initialized |-> TRUE, sessions |-> ui.sessions + 1,
                      boundary |-> started, old |-> memory]
            /\ UNCHANGED memory
            /\ SetSession(setup(NewSession, "ok"))
       ELSE /\ SetSession(ResetCleanup(SessionNow))
            /\ UNCHANGED <<memory, ui>>
    /\ lastOp' = [NoOp EXCEPT !.op = "reset"]
    /\ UNCHANGED <<rs, started, cleaning, ends>>

\* SidekickUI.reset: the old instance is cleaned up, a new one is made and set
\* up and becomes the UI's; when that setup raises the UI keeps the old one
UIReset(outcome) ==
    /\ ui.sessions >= 1
    /\ IF outcome = "ok"
       THEN /\ ui.sessions < MaxSessions
            /\ NewSidekick(TRUE)
            /\ SetSession(setup(NewSession, "ok"))
       ELSE /\ SetSession(ResetCleanup(SessionNow))
            /\ UNCHANGED <<memory, ui>>
    /\ lastOp' = [NoOp EXCEPT !.op = "reset"]
    /\ UNCHANGED <<rs, started, cleaning, ends>>

DoUISetup == \E outcome \in SetupOutcomes : UISetup(outcome)

DoUIReset == \E outcome \in SetupOutcomes : UIReset(outcome)

NextSessions ==
    \/ DoUISetup
    \/ DoUIReset
    \/ DoCall
    \/ DoWorker
    \/ DoTools
    \/ DoEvaluator
    \/ DoReturn

SessionsSpec == Init /\ [][NextSessions]_vars

-----------------------------------------------------------------------------
(* Properties *)

\* C1: route_based_on_evaluation returns END exactly when success_criteria_met
\* or user_input_needed is true, and worker otherwise; there is no third result.
EvaluationRouterTerminalIff ==
    \A c \in Calls :
        rs[c].pc = "route_based_on_evaluation" =>
            /\ rs[c].node \in {"END", "worker"}
            /\ rs[c].node = "END" <=>
                   (rs[c].st.success_criteria_met \/ rs[c].st.user_input_needed)
            /\ rs[c].node = "worker" <=>
                   (~rs[c].st.success_criteria_met /\ ~rs[c].st.user_input_needed)

\* C1 witness: the router was applied to user_input_needed without
\* success_criteria_met and returned END
EvaluationRouterWitness ==
    \E c \in Calls :
        /\ rs[c].pc = "route_based_on_evaluation"
        /\ ~rs[c].st.success_criteria_met
        /\ rs[c].st.user_input_needed
        /\ rs[c].node = "END"

\* the number of tool calls the message carries: none when the attribute is
\* absent, None or an empty list
CarriedCalls(m) == IF m.tool_calls.kind = "list" THEN Len(m.tool_calls.calls) ELSE 0

\* C2: worker_router returns tools when the last message carries one or more
\* tool calls and evaluator when it carries none; nothing but the last message
\* decides it.
WorkerRouterByLastMessage ==
    \A c \in Calls :
        rs[c].pc = "worker_router" =>
            /\ rs[c].node \in {"tools", "evaluator"}
            /\ rs[c].node = "tools" <=> CarriedCalls(Last(rs[c].st.messages)) >= 1
            /\ rs[c].node = "evaluator" <=> CarriedCalls(Last(rs[c].st.messages)) = 0

\* C2 witness: an earlier message carries tool calls, the last one's tool_calls
\* is None, the flags are set, and the router returned evaluator
WorkerRouterWitness ==
    \E c \in Calls :
        /\ rs[c].pc = "worker_router"
        /\ Len(rs[c].st.messages) = 2
        /\ CarriedCalls(rs[c].st.messages[1]) = 2
        /\ rs[c].st.messages[2].tool_calls.kind = "null"
        /\ rs[c].st.success_criteria_met
        /\ rs[c].node = "evaluator"

-----------------------------------------------------------------------------
(* Properties of the graph run *)

\* the messages of a transcript that a given component produced in a given
\* superstep
ProducedBy(m, by, run) == m.by = by /\ m.id # NoId /\ m.id[1] = run

\* C3: the graph stops right after the first evaluator run that sets
\* success_criteria_met or user_input_needed, no node runs after that run, and
\* after an evaluator run that sets neither the next node is the worker.
TerminalAfterFlaggedEvaluator ==
    \A c \in Calls :
        LET p == rs[c].path
        IN  /\ \A i \in 1..Len(p) :
                   (p[i].node = "evaluator" /\ p[i].flagged) =>
                       (i = Len(p) /\ rs[c].node = "END")
            /\ \A i \in 1..Len(p) :
                   (p[i].node = "evaluator" /\ ~p[i].flagged) =>
                       IF i < Len(p) THEN p[i + 1].node = "worker"
                       ELSE rs[c].node = "worker"
            /\ rs[c].node = "END" =>
                   (Len(p) > 0 /\ p[Len(p)].node = "evaluator" /\ p[Len(p)].flagged)

\* C3 witness: a superstep returned after worker, evaluator (no flag), worker,
\* evaluator, the last one setting user_input_needed without success_criteria_met
TerminalAfterFlaggedEvaluatorWitness ==
    \E c \in Calls :
        /\ rs[c].pc = "done"
        /\ Len(rs[c].path) = 4
        /\ rs[c].path[2].node = "evaluator"
        /\ ~rs[c].path[2].flagged
        /\ rs[c].path[3].node = "worker"
        /\ rs[c].st.user_input_needed
        /\ ~rs[c].st.success_criteria_met

\* C4: across run_superstep calls on the session the stored transcript is
\* append-only: what it held at the end of superstep n is a strict prefix of
\* what it holds at the end of superstep n+1, the new Human message directly
\* after it, and nothing earlier is removed, replaced or reordered.
TranscriptAppendOnly ==
    ends.n >= 2 =>
        /\ IsStrictPrefix(ends.prev, ends.cur)
        /\ isinstance(ends.cur[Len(ends.prev) + 1], "human")
        /\ ends.cur[Len(ends.prev) + 1].id = <<ends.run, Len(ends.prev) + 1>>

RECURSIVE CountType(_, _)
CountType(msgs, type) ==
    IF msgs = <<>> THEN 0
    ELSE (IF isinstance(Head(msgs), type) THEN 1 ELSE 0) + CountType(Tail(msgs), type)

WorkerRuns(msgs) == Cardinality({ i \in 1..Len(msgs) : msgs[i].by = "worker" })

\* C5 as stated: once the worker has run in the thread, the stored messages
\* hold exactly one System message.
ExactlyOneSystemMessage ==
    WorkerRuns(memory.messages) >= 1 => CountType(memory.messages, "system") = 1

\* C5 as amended: the messages of the thread, stored or held by a running
\* graph, never hold more than one System message.
AtMostOneSystemMessage ==
    /\ CountType(memory.messages, "system") <= 1
    /\ \A c \in Calls : CountType(rs[c].st.messages, "system") <= 1

\* C5 witness: the worker has run three times in the thread and the stored
\* messages hold no System message
RepeatedWorkerWitness ==
    /\ WorkerRuns(memory.messages) >= 3
    /\ CountType(memory.messages, "system") = 0

LastIndexBy(msgs, by) ==
    CHOOSE i \in 1..Len(msgs) :
        msgs[i].by = by /\ \A j \in (i + 1)..Len(msgs) : msgs[j].by # by

\* C6: a run_superstep call that returns gives back the input history, unchanged
\* and in order, followed by exactly three entries: the user's message, the
\* worker's (last) reply and the evaluator's (last) feedback of this superstep.
ReturnsHistoryPlusThree ==
    \A c \in Calls :
        rs[c].pc = "done" =>
            LET h == rs[c].arg_history
                n == Len(h)
                msgs == rs[c].st.messages
                w == msgs[LastIndexBy(msgs, "worker")]
                e == msgs[LastIndexBy(msgs, "evaluator")]
            IN  /\ rs[c].history = h
                /\ Len(rs[c].result) = n + 3
                /\ SubSeq(rs[c].result, 1, n) = h
                /\ rs[c].result[n + 1] = [role |-> "user", content |-> rs[c].message]
                /\ rs[c].result[n + 2] = [role |-> "assistant", content |-> w.content]
                /\ rs[c].result[n + 3] = [role |-> "assistant", content |-> e.content]
                /\ ProducedBy(w, "worker", rs[c].run)
                /\ ProducedBy(e, "evaluator", rs[c].run)

\* C6 witness: a call with a non-empty history returned after four node runs
ReturnsHistoryPlusThreeWitness ==
    \E c \in Calls :
        /\ rs[c].pc = "done"
        /\ rs[c].arg_history # <<>>
        /\ Len(rs[c].path) = 4

\* C7: when the graph has stopped at END, the last message is the evaluator's
\* feedback message of this superstep and the one before it is the worker's
\* reply of this superstep, an Assistant message without tool calls.
TerminalTailIsReplyThenFeedback ==
    \A c \in Calls :
        rs[c].node = "END" =>
            LET msgs == rs[c].st.messages
                n == Len(msgs)
            IN  /\ n >= 3
                /\ ProducedBy(msgs[n], "evaluator", rs[c].run)
                /\ msgs[n].content = FEEDBACK_PREFIX \o rs[c].st.feedback_on_work
                /\ ProducedBy(msgs[n - 1], "worker", rs[c].run)
                /\ isinstance(msgs[n - 1], "ai")
                /\ CarriedCalls(msgs[n - 1]) = 0
                /\ LastIndexBy(msgs, "worker") = n - 1

\* C7 witness: the graph stopped after worker, tools, worker, evaluator, the
\* tools run having added two ToolMessages
TerminalTailWitness ==
    \E c \in Calls :
        /\ rs[c].node = "END"
        /\ Len(rs[c].path) = 4
        /\ rs[c].path[2].node = "tools"
        /\ CountType(rs[c].st.messages, "tool") = 2

\* C8: two supersteps on the session never interleave: while a run_superstep
\* that started earlier has neither returned nor raised, a later one runs no
\* node and writes no checkpoint.
SuperstepsNeverInterleave ==
    \A c \in Calls, d \in Calls :
        (Busy(c) /\ rs[c].run < rs[d].run) => ~Busy(d)

\* C9: run_superstep on a session that is not initialized raises the
\* not-initialized error before any node runs and leaves the conversation state,
\* the checkpoint and the caller's history as they were.
RejectedWhenNotInitialized ==
    [][\A c \in Calls :
          (started' = started + 1 /\ rs'[c].run = started' /\ ~is_initialized) =>
              /\ rs'[c].pc = "failed"
              /\ rs'[c].error = "not_initialized"
              /\ rs'[c].path = <<>>
              /\ rs'[c].node = "none"
              /\ rs'[c].st = EmptyState
              /\ rs'[c].result = <<>>
              /\ rs'[c].history = rs'[c].arg_history
              /\ memory' = memory]_vars

\* C9 witness: a call with a non-empty history was rejected on a session that
\* holds a checkpoint of an earlier superstep
RejectedWitness ==
    \E c \in Calls :
        /\ rs[c].error = "not_initialized"
        /\ rs[c].arg_history # <<>>
        /\ Len(memory.messages) > 0
        /\ ~is_initialized

\* C10: after a cleanup the session holds no browser, no playwright and is not
\* initialized, and cleanup raised nothing; a cleanup of a session that is
\* already in that state (cleaned before, or never set up) releases nothing and
\* changes nothing.
CleanupIdempotentTotal ==
    lastOp.op = "cleanup" =>
        /\ CleanSession(SessionNow)
        /\ ~lastOp.raised
        /\ lastOp.was_clean => (~lastOp.released /\ lastOp.kept)

\* C10 witness: cleanup ran on a session that had been set up and cleaned
\* before, and released nothing
SecondCleanupWitness ==
    /\ lastOp.op = "cleanup"
    /\ lastOp.was_clean
    /\ graph = "compiled"
    /\ ~lastOp.released

-----------------------------------------------------------------------------
(* Properties of failure handling *)

\* a step in which a setup() call on `s` fails: only Setup records setup_failed
\* and it touches nothing of the conversation
FailedSetupStep ==
    /\ lastOp'.op = "setup_failed"
    /\ UNCHANGED <<memory, rs, started, cleaning, ends, ui>>

\* C11: a setup that fails on a fresh session raises, leaves the session not
\* initialized, and leaves it holding no browser, no playwright and no tool set.
FailedSetupExposesNothing ==
    [][(FailedSetupStep /\ SessionNow = NewSession) =>
          /\ lastOp'.raised
          /\ ~is_initialized'
          /\ browser' = "none"
          /\ playwright' = "none"
          /\ tools' = "none"]_vars


\* the content ToolNode gives the ToolMessage of a call that names no
\* registered tool
InvalidToolContent(name) == "Error: " \o name \o " is not a valid tool"

\* C12: a tools run whose calls name a tool that is not registered does not fail
\* the superstep: the transcript gets a ToolMessage with error content carrying
\* that call's id, the next node is the worker, and the list the worker hands
\* to its LLM holds that ToolMessage.
UnknownToolReportedToWorker ==
    \A c \in Calls :
        LET p == rs[c].path
        IN  (Len(p) >= 2 /\ p[Len(p)].node = "tools") =>
                LET msgs == rs[c].st.messages
                    ai == msgs[LastIndexBy(msgs, "worker")]
                    prompt == WorkerPrompt(rs[c].st)
                IN  /\ rs[c].node = "worker"
                    /\ \A k \in 1..Len(ai.tool_calls.calls) :
                          LET call == ai.tool_calls.calls[k]
                          IN  call.name \notin RegisteredTools =>
                                  \E i \in 1..Len(prompt) :
                                      /\ i > LastIndexBy(msgs, "worker")
                                      /\ isinstance(prompt[i], "tool")
                                      /\ prompt[i].tool_call_id = call.id
                                      /\ prompt[i].content = InvalidToolContent(call.name)

\* C12 witness: the tools node ran on a reply that calls the unknown tool as
\* call_2, and the worker is next with the error ToolMessage of call_2 last
UnknownToolWitness ==
    \E c \in Calls :
        /\ rs[c].node = "worker"
        /\ Len(rs[c].path) >= 2
        /\ rs[c].path[Len(rs[c].path)].node = "tools"
        /\ Last(rs[c].st.messages).tool_call_id = "call_2"
        /\ Last(rs[c].st.messages).content = InvalidToolContent(UnknownTool)


\* a step in which the node `name` of call c raises
NodeFailsStep(c, name) ==
    /\ rs[c].pc = "running"
    /\ rs[c].node = name
    /\ rs'[c].pc = "failed"

\* C13: when the evaluator's LLM call raises, run_superstep raises to its
\* caller and the evaluator run commits nothing: messages, feedback_on_work,
\* success_criteria_met and user_input_needed, in the run and in the
\* checkpoint, are what they were when the evaluator started.
EvaluatorFailureCommitsNothing ==
    [][\A c \in Calls :
          NodeFailsStep(c, "evaluator") =>
              /\ rs'[c].error = "superstep_failed"
              /\ rs'[c].result = <<>>
              /\ rs'[c].st = rs[c].st
              /\ rs'[c].path = rs[c].path
              /\ memory' = memory]_vars

\* C13 witness: the evaluator raised in its second run of a superstep, and the
\* rejection of its first run is still the stored feedback_on_work
EvaluatorFailureWitness ==
    \E c \in Calls :
        /\ rs[c].pc = "failed"
        /\ rs[c].error = "superstep_failed"
        /\ rs[c].node = "evaluator"
        /\ Len(rs[c].path) = 3
        /\ rs[c].st.feedback_on_work = "try again"
        /\ memory = rs[c].st
        /\ Last(memory.messages).by = "worker"


\* a step in which run_superstep is called on a session that is set up
AcceptedCallStep(c) ==
    /\ started' = started + 1
    /\ rs'[c].run = started'
    /\ rs'[c].pc = "running"

\* C14: when the worker's LLM call raises, run_superstep raises and the
\* checkpoint keeps exactly what the nodes that completed have stored, with no
\* message of the failed run; and every run_superstep that is accepted resumes
\* from the stored transcript: it keeps it whole and appends its Human message.
WorkerFailureKeepsCheckpoint ==
    [][\A c \in Calls :
          /\ NodeFailsStep(c, "worker") =>
                /\ rs'[c].error = "superstep_failed"
                /\ rs'[c].result = <<>>
                /\ rs'[c].st = rs[c].st
                /\ memory' = memory
          /\ AcceptedCallStep(c) =>
                /\ Len(memory'.messages) = Len(memory.messages) + 1
                /\ SubSeq(memory'.messages, 1, Len(memory.messages)) = memory.messages
                /\ isinstance(Last(memory'.messages), "human")
                /\ rs'[c].st = memory']_vars

\* C14 witness: the first superstep failed in its first worker run, leaving the
\* Human message alone in the checkpoint, and the second superstep runs on that
\* transcript followed by its own Human message
WorkerFailureWitness ==
    \E c \in Calls :
        /\ rs[c].pc = "running"
        /\ rs[c].run = 2
        /\ ends.n = 1
        /\ ends.run = 1
        /\ Len(ends.cur) = 1
        /\ IsStrictPrefix(ends.cur, rs[c].st.messages)
        /\ isinstance(rs[c].st.messages[2], "human")
        /\ Len(rs[c].path) >= 1


\* C15: a superstep that fails does not crash the session: process_message
\* raises nothing and returns the history it was given followed by one
\* assistant entry that reports the error, and the failure leaves every field
\* of the Sidekick it returns as it was, so the session accepts the next
\* run_superstep as it did this one.
FailedSuperstepShownAsErrorTurn ==
    /\ [](\A c \in Calls :
            (rs[c].pc = "failed" /\ started < MaxSupersteps) => ENABLED DoCall)
    /\ [][\A c \in Calls :
          (rs[c].pc = "running" /\ rs'[c].pc = "failed") =>
              LET h == rs[c].arg_history
              IN  /\ Len(rs'[c].ui) = Len(h) + 1
                  /\ SubSeq(rs'[c].ui, 1, Len(h)) = h
                  /\ Last(rs'[c].ui).role = "assistant"
                  /\ Last(rs'[c].ui).content = ERROR_PREFIX \o "Failed to run superstep"
                  /\ UNCHANGED <<is_initialized, browser, playwright, tools, graph, ui>>
                  /\ memory' = memory]_vars

\* C15 witness: a call with a non-empty history failed in the evaluator on a
\* session that is still initialized, and the chatbot got the history plus the
\* error entry
FailedSuperstepWitness ==
    \E c \in Calls :
        /\ rs[c].pc = "failed"
        /\ rs[c].error = "superstep_failed"
        /\ rs[c].node = "evaluator"
        /\ rs[c].arg_history # <<>>
        /\ Len(rs[c].ui) = Len(rs[c].arg_history) + 1
        /\ is_initialized


-----------------------------------------------------------------------------
(* Properties of the node sequence *)

\* the edges of the graph: from the node that ran to the node that may run next
Successors(node) ==
    CASE node = "worker" -> {"tools", "evaluator"}
      [] node = "tools" -> {"worker"}
      [] node = "evaluator" -> {"worker", "END"}

\* the nodes a graph run has executed and the node it is at follow the edges
PathFollowsEdges(c) ==
    LET p == rs[c].path
    IN  /\ Len(p) > 0 => p[1].node = "worker"
        /\ \A i \in 1..(Len(p) - 1) : p[i + 1].node \in Successors(p[i].node)
        /\ (rs[c].run > 0 /\ rs[c].error # "not_initialized") =>
               IF Len(p) = 0 THEN rs[c].node = "worker"
               ELSE rs[c].node \in Successors(p[Len(p)].node)

\* the graph runs that are at a node of the thread
ActiveRuns == { c \in Calls : Busy(c) /\ rs[c].node \in {"worker", "tools", "evaluator"} }

\* C16: every superstep starts at the worker and follows only the edges worker
\* to tools or evaluator, tools to worker, evaluator to worker or END, and at
\* most one node is active on the thread at any time.
NodeSequenceOneAtATime ==
    /\ \A c \in Calls : PathFollowsEdges(c)
    /\ Cardinality(ActiveRuns) <= 1


\* a step in which the node `name` of call c runs to its end
NodeRunStep(c, name) ==
    /\ rs[c].pc = "running"
    /\ rs[c].node = name
    /\ Len(rs'[c].path) = Len(rs[c].path) + 1

\* C17: an evaluator run that completes appends exactly one Assistant message,
\* whose content is the feedback prefix followed by the returned feedback, and
\* sets feedback_on_work, success_criteria_met and user_input_needed to the
\* values of the returned record, whatever they held before.
EvaluatorSetsAllThree ==
    [][\A c \in Calls :
          NodeRunStep(c, "evaluator") =>
              LET old == rs[c].st
                  new == rs'[c].st
                  n == Len(old.messages)
              IN  /\ Len(new.messages) = n + 1
                  /\ SubSeq(new.messages, 1, n) = old.messages
                  /\ isinstance(Last(new.messages), "ai")
                  /\ CarriedCalls(Last(new.messages)) = 0
                  /\ \E r \in EvaluatorOutputs :
                        /\ Last(new.messages).content = FEEDBACK_PREFIX \o r.feedback
                        /\ new.feedback_on_work = r.feedback
                        /\ new.success_criteria_met = r.success_criteria_met
                        /\ new.user_input_needed = r.user_input_needed
                        /\ Last(rs'[c].path).flagged =
                               (r.success_criteria_met \/ r.user_input_needed)
                  /\ new.success_criteria = old.success_criteria
                  /\ memory' = new]_vars

\* C17 witness: the evaluator ran twice in a superstep, first rejecting with
\* "try again", then returning an empty feedback, which replaced the first
EvaluatorSetsAllThreeWitness ==
    \E c \in Calls :
        /\ Len(rs[c].path) = 4
        /\ rs[c].path[2].node = "evaluator"
        /\ rs[c].path[4].node = "evaluator"
        /\ rs[c].st.messages[3].content = FEEDBACK_PREFIX \o "try again"
        /\ rs[c].st.feedback_on_work = ""
        /\ Last(rs[c].st.messages).content = FEEDBACK_PREFIX


-----------------------------------------------------------------------------
(* Properties of the tool results *)

\* the position of the last message before position j that is not a ToolMessage
GroupHead(msgs, j) ==
    IF \E i \in 1..(j - 1) : ~isinstance(msgs[i], "tool")
    THEN CHOOSE i \in 1..(j - 1) :
            ~isinstance(msgs[i], "tool")
            /\ \A k \in (i + 1)..(j - 1) : isinstance(msgs[k], "tool")
    ELSE 0

\* the positions of the ToolMessages that directly follow position i
GroupOf(msgs, i) ==
    { j \in (i + 1)..Len(msgs) : \A k \in (i + 1)..j : isinstance(msgs[k], "tool") }

\* every ToolMessage of msgs belongs to a group that directly follows a worker
\* reply with tool calls, and the group pairs off with the calls of that reply
ToolResultsCorrelated(msgs) ==
    \A j \in 1..Len(msgs) :
        isinstance(msgs[j], "tool") =>
            LET i == GroupHead(msgs, j)
            IN  /\ i > 0
                /\ isinstance(msgs[i], "ai")
                /\ msgs[i].by = "worker"
                /\ LET calls == msgs[i].tool_calls.calls
                       group == GroupOf(msgs, i)
                   IN  /\ Cardinality(group) = Len(calls)
                       /\ Cardinality({ k \in 1..Len(calls) :
                                          calls[k].id = msgs[j].tool_call_id }) = 1
                       /\ \A k \in 1..Len(calls) :
                              Cardinality({ g \in group :
                                              msgs[g].tool_call_id = calls[k].id }) = 1
                       /\ \A g \in group : msgs[g].id[1] = msgs[i].id[1]

\* C18: in the messages of the thread, stored or held by a graph run, every
\* group of ToolMessages directly follows the worker reply whose tool calls
\* produced it, each ToolMessage carries the id of exactly one call of that
\* reply and each call of that reply has exactly one ToolMessage, in whatever
\* order the concurrent calls completed.
ToolResultsFollowTheirCalls ==
    /\ ToolResultsCorrelated(memory.messages)
    /\ \A c \in Calls : ToolResultsCorrelated(rs[c].st.messages)

\* C18 witness: the two calls of a reply completed in reverse order, the second
\* before the first, and the worker has replied after their ToolMessages
ToolResultsWitness ==
    \E c \in Calls :
        /\ Len(rs[c].path) >= 3
        /\ rs[c].path[2].node = "tools"
        /\ rs[c].path[2].order = <<2, 1>>
        /\ rs[c].path[3].node = "worker"
        /\ CountType(rs[c].st.messages, "tool") = 2


-----------------------------------------------------------------------------
(* Properties of the initial state *)

\* C19: create_initial_state(message, criteria) gives success_criteria the
\* fixed default "The answer should be clear and accurate" when criteria is the
\* empty string and criteria itself otherwise, feedback_on_work None, both
\* flags false, and messages the given message.
InitialStateDefaults ==
    \A c \in Calls :
        rs[c].pc = "create_initial_state" =>
            /\ rs[c].st.success_criteria =
                   IF rs[c].success_criteria = ""
                   THEN "The answer should be clear and accurate"
                   ELSE rs[c].success_criteria
            /\ rs[c].st.feedback_on_work = NONE
            /\ rs[c].st.success_criteria_met = FALSE
            /\ rs[c].st.user_input_needed = FALSE
            /\ rs[c].st.messages = rs[c].message
            /\ DOMAIN rs[c].st = {"messages", "success_criteria", "feedback_on_work",
                                  "success_criteria_met", "user_input_needed"}

\* C19 witness: create_initial_state was applied to a criteria of one blank,
\* which it kept
InitialStateWitness ==
    \E c \in Calls :
        /\ rs[c].pc = "create_initial_state"
        /\ rs[c].success_criteria = " "
        /\ rs[c].st.success_criteria = " "
        /\ rs[c].message = "task"


\* the criteria a superstep is seeded with, from what its caller passed
SeededCriteria(c) ==
    IF rs[c].success_criteria = "" THEN "The answer should be clear and accurate"
    ELSE rs[c].success_criteria

\* C20: the success_criteria of a superstep is set when the superstep is seeded
\* and stays that value in every state of its graph run until the run ends: no
\* worker, tools or evaluator run changes it, and every checkpoint the run
\* saves holds it.
CriteriaFixedWithinSuperstep ==
    /\ [](\A c \in Calls :
            rs[c].node \in {"worker", "tools", "evaluator", "END"} =>
                rs[c].st.success_criteria = SeededCriteria(c))
    /\ [][\A c \in Calls :
            /\ AcceptedCallStep(c) =>
                  /\ rs'[c].st.success_criteria = SeededCriteria(c)'
                  /\ memory'.success_criteria = SeededCriteria(c)'
            /\ NodeRunStep(c, rs[c].node) =>
                  /\ rs'[c].success_criteria = rs[c].success_criteria
                  /\ rs'[c].st.success_criteria = rs[c].st.success_criteria
                  /\ memory'.success_criteria = rs[c].st.success_criteria]_vars

\* C20 witness: a superstep seeded with the criteria "be brief" returned after
\* worker, tools, worker and evaluator with that criteria in its state
CriteriaFixedWitness ==
    \E c \in Calls :
        /\ rs[c].pc = "done"
        /\ rs[c].success_criteria = "be brief"
        /\ Len(rs[c].path) = 4
        /\ rs[c].path[2].node = "tools"
        /\ rs[c].st.success_criteria = "be brief"
        /\ rs[c].st.feedback_on_work # NONE


-----------------------------------------------------------------------------
(* Properties of tool timeouts and termination *)

\* C21: every tool call is bounded by a timeout, so no superstep is ever held
\* at the tools node by a call that does not complete.
ToolCallsBounded ==
    \A c \in Calls : rs[c].pc # "blocked"


\* Supersteps under fair scheduling.  The event loop runs every node that is
\* ready, and the two LLMs do what the claim supposes of them: from its third
\* node on a graph run gets a worker reply without tool calls, and from its
\* fourth node on an evaluation that sets a flag.  Calls are made one at a time.
FinalReplies == { r \in WorkerReplies : ~HasToolCalls(r) }

FlaggedOutputs ==
    { r \in EvaluatorOutputs : r.success_criteria_met \/ r.user_input_needed }

FairCall ==
    /\ \A d \in Calls : ~Busy(d)
    /\ \E c \in Calls, in \in CallInputs :
          CallSuperstep(c, in.message, in.success_criteria, in.history)

FairWorker ==
    \E c \in Calls :
        \E response \in IF Len(rs[c].path) >= 2 THEN FinalReplies ELSE WorkerReplies :
            WorkerStep(c, response)

FairEvaluator ==
    \E c \in Calls :
        \E r \in IF Len(rs[c].path) >= 3 THEN FlaggedOutputs ELSE EvaluatorOutputs :
            EvaluatorStep(c, r)

NextFair ==
    \/ DoSetup
    \/ FairCall
    \/ FairWorker
    \/ DoTools
    \/ DoToolsHang
    \/ FairEvaluator
    \/ DoNodeFails
    \/ DoReturn

FairSpec ==
    /\ Init
    /\ [][NextFair]_vars
    /\ WF_vars(FairWorker)
    /\ WF_vars(DoTools)
    /\ WF_vars(FairEvaluator)
    /\ WF_vars(DoReturn)

\* C22: under fair scheduling every superstep that has started eventually ends,
\* by returning at END or by raising, when the worker eventually replies
\* without tool calls and the evaluator eventually sets a flag.
EverySuperstepEnds ==
    \A c \in Calls :
        (rs[c].pc \in {"running", "blocked"}) ~> (rs[c].pc \in {"done", "failed"})


-----------------------------------------------------------------------------
(* Properties of the sessions *)

\* the supersteps (by number) that produced the messages
Producers(msgs) == { msgs[i].id[1] : i \in 1..Len(msgs) }

\* supersteps of the instance the UI holds now, and of the instances before it
CurrentRuns == { n \in 1..MaxSupersteps : n > ui.boundary }
EarlierRuns == { n \in 1..MaxSupersteps : n <= ui.boundary }

\* C23: a superstep reads and changes only the conversation state of the
\* Sidekick instance it was called on, also while a superstep of another
\* instance is running: the checkpoint and the graph runs of an instance hold
\* only messages of its own supersteps, a node run saves to the checkpoint of
\* its own instance and to no other, and the first worker run after a reset is
\* handed the System message and the new Human message only.
SessionsIsolated ==
    /\ [](/\ Producers(memory.messages) \subseteq CurrentRuns
          /\ Producers(ui.old.messages) \subseteq EarlierRuns
          /\ \A c \in Calls :
                /\ rs[c].session = ui.sessions =>
                       Producers(rs[c].st.messages) \subseteq CurrentRuns
                /\ rs[c].session < ui.sessions =>
                       Producers(rs[c].st.messages) \subseteq EarlierRuns
                /\ (rs[c].pc = "running" /\ rs[c].path = <<>>
                      /\ rs[c].run = ui.boundary + 1) =>
                       LET prompt == WorkerPrompt(rs[c].st)
                       IN  /\ Len(prompt) = 2
                           /\ isinstance(prompt[1], "system")
                           /\ isinstance(prompt[2], "human")
                           /\ prompt[2].content = rs[c].message)
    /\ [][\A c \in Calls :
            NodeRunStep(c, rs[c].node) =>
                IF rs[c].session = ui.sessions
                THEN ui'.old = ui.old
                ELSE memory' = memory]_vars

\* C23 witness: after a reset a superstep of the new instance has run its
\* worker while a superstep of the old instance is still running, and the old
\* instance's checkpoint holds the messages of that superstep
SessionsWitness ==
    \E c \in Calls, d \in Calls :
        /\ ui.sessions = 2
        /\ rs[c].session = 2
        /\ rs[c].pc = "running"
        /\ Len(rs[c].path) >= 1
        /\ Len(rs[c].st.messages) = 2
        /\ rs[d].session = 1
        /\ rs[d].pc = "running"
        /\ Len(rs[d].path) >= 2
        /\ ui.old = rs[d].st


-----------------------------------------------------------------------------
(* Properties of the worker and tools nodes *)

NotSystem(m) == ~isinstance(m, "system")

\* C24: the list the worker hands to its LLM holds exactly one System message,
\* with the prompt text for the state: when the state's messages hold a System
\* message the list is those messages with that message's content replaced and
\* nothing added, otherwise it is a new System message followed by those
\* messages; the other messages are the same and in the same order.
WorkerHandsOneSystemMessage ==
    \A c \in Calls :
        rs[c].pc = "worker" =>
            LET msgs == rs[c].st.messages
                prompt == rs[c].result
                text == "criteria: " \o rs[c].st.success_criteria \o
                            (IF rs[c].st.feedback_on_work \in {NONE, ""} THEN ""
                             ELSE " rejected: " \o rs[c].st.feedback_on_work)
            IN  /\ CountType(prompt, "system") = 1
                /\ SelectSeq(prompt, NotSystem) = SelectSeq(msgs, NotSystem)
                /\ IF CountType(msgs, "system") = 1
                   THEN /\ Len(prompt) = Len(msgs)
                        /\ \A i \in 1..Len(msgs) :
                              IF isinstance(msgs[i], "system")
                              THEN prompt[i] = [msgs[i] EXCEPT !.content = text]
                              ELSE prompt[i] = msgs[i]
                   ELSE /\ Len(prompt) = Len(msgs) + 1
                        /\ isinstance(prompt[1], "system")
                        /\ prompt[1].content = text
                        /\ SubSeq(prompt, 2, Len(prompt)) = msgs

\* C24 witness: the worker ran on a Human message followed by a System message
\* while feedback was stored, and handed over the two with the System message
\* rewritten in its place
WorkerReplacesInPlaceWitness ==
    \E c \in Calls :
        /\ rs[c].pc = "worker"
        /\ Len(rs[c].st.messages) = 2
        /\ isinstance(rs[c].st.messages[1], "human")
        /\ isinstance(rs[c].st.messages[2], "system")
        /\ rs[c].st.feedback_on_work = "try again"
        /\ Len(rs[c].result) = 2
        /\ rs[c].result[2].content # rs[c].st.messages[2].content


\* feedback_on_work, success_criteria_met and user_input_needed of a state
Evaluation(state) ==
    <<state.feedback_on_work, state.success_criteria_met, state.user_input_needed>>

\* C25: a worker run that completes appends exactly one Assistant message and
\* a tools run appends ToolMessages only, and both leave feedback_on_work,
\* success_criteria_met and user_input_needed as they were; the three fields
\* of a graph run change only in an evaluator run or when a superstep is seeded.
WorkerAndToolsWriteMessagesOnly ==
    [][\A c \in Calls :
          LET old == rs[c].st
              new == rs'[c].st
              n == Len(old.messages)
          IN  /\ NodeRunStep(c, "worker") =>
                    /\ Len(new.messages) = n + 1
                    /\ SubSeq(new.messages, 1, n) = old.messages
                    /\ isinstance(Last(new.messages), "ai")
                    /\ Last(new.messages).by = "worker"
                    /\ Evaluation(new) = Evaluation(old)
              /\ NodeRunStep(c, "tools") =>
                    /\ Len(new.messages) > n
                    /\ SubSeq(new.messages, 1, n) = old.messages
                    /\ \A i \in (n + 1)..Len(new.messages) :
                          isinstance(new.messages[i], "tool")
                    /\ Evaluation(new) = Evaluation(old)
              /\ Evaluation(new) # Evaluation(old) =>
                    \/ NodeRunStep(c, "evaluator")
                    \/ started' = started + 1 /\ rs'[c].run = started']_vars

\* C25 witness: the worker ran again after the evaluator rejected its answer,
\* and the rejection is still in feedback_on_work after that worker run and
\* the tools run that followed it
FeedbackKeptWitness ==
    \E c \in Calls :
        /\ Len(rs[c].path) = 4
        /\ rs[c].path[2].node = "evaluator"
        /\ rs[c].path[3].node = "worker"
        /\ rs[c].path[4].node = "tools"
        /\ rs[c].st.feedback_on_work = "try again"
        /\ isinstance(Last(rs[c].st.messages), "tool")


-----------------------------------------------------------------------------
(* Properties of the evaluator's input *)

IsTurn(m) == isinstance(m, "human") \/ isinstance(m, "ai")

\* C26: the transcript rendered for the evaluator has one line for each Human
\* and each Assistant message of the state's messages, in their order, and no
\* line for any other message; an Assistant message with empty content is
\* rendered as "[Tools use]", any other Assistant message as its content.
TranscriptRendersTurnsOnly ==
    \A c \in Calls :
        rs[c].pc = "format_conversation" =>
            LET turns == SelectSeq(rs[c].st.messages, IsTurn)
                lines == rs[c].result
            IN  /\ Len(lines) = CountType(rs[c].st.messages, "human")
                                  + CountType(rs[c].st.messages, "ai")
                /\ Len(lines) = Len(turns)
                /\ \A k \in 1..Len(turns) :
                      lines[k] =
                          CASE turns[k].type = "human" -> "User: " \o turns[k].content
                            [] turns[k].type = "ai" /\ turns[k].content = "" ->
                                   "Assistant: [Tools use]"
                            [] turns[k].type = "ai" /\ turns[k].content # "" ->
                                   "Assistant: " \o turns[k].content

\* C26 witness: a reply with tool calls and no text, followed by a ToolMessage,
\* was rendered as the single line "Assistant: [Tools use]"
TranscriptWitness ==
    \E c \in Calls :
        /\ rs[c].pc = "format_conversation"
        /\ Len(rs[c].st.messages) = 2
        /\ CarriedCalls(rs[c].st.messages[1]) = 2
        /\ isinstance(rs[c].st.messages[2], "tool")
        /\ rs[c].result = <<"Assistant: [Tools use]">>


\* C27: whenever a graph run is at the evaluator, the last message of its
\* transcript is an Assistant message of the worker of this superstep that
\* carries no tool calls; whenever it is at the tools node, the last message is
\* an Assistant message of the worker that carries at least one tool call.
NodesStartOnWorkerReply ==
    \A c \in Calls :
        LET msgs == rs[c].st.messages
        IN  /\ rs[c].node = "evaluator" =>
                  /\ isinstance(Last(msgs), "ai")
                  /\ ProducedBy(Last(msgs), "worker", rs[c].run)
                  /\ CarriedCalls(Last(msgs)) = 0
            /\ rs[c].node = "tools" =>
                  /\ isinstance(Last(msgs), "ai")
                  /\ ProducedBy(Last(msgs), "worker", rs[c].run)
                  /\ CarriedCalls(Last(msgs)) >= 1

\* C27 witness: a graph run is at the evaluator after worker, tools and worker,
\* with the ToolMessages and an earlier superstep's feedback message before
\* the reply it is to judge
EvaluatorStartsWitness ==
    \E c \in Calls :
        /\ rs[c].pc = "running"
        /\ rs[c].node = "evaluator"
        /\ Len(rs[c].path) = 3
        /\ rs[c].path[2].node = "tools"
        /\ \E i \in 1..Len(rs[c].st.messages) :
              /\ rs[c].st.messages[i].by = "evaluator"
              /\ rs[c].st.messages[i].id[1] < rs[c].run


-----------------------------------------------------------------------------
(* Properties of the rejection feedback *)

\* the positions of the feedback messages the evaluator added in the superstep
\* of call c, and of those among them whose feedback is not empty
Evaluations(c) ==
    { i \in 1..Len(rs[c].st.messages) :
        ProducedBy(rs[c].st.messages[i], "evaluator", rs[c].run) }

Rejections(c) ==
    { i \in Evaluations(c) : rs[c].st.messages[i].content # FEEDBACK_PREFIX }

Latest(positions) == CHOOSE i \in positions : \A j \in positions : j <= i

\* the prompt of the System message the worker of call c hands to its LLM
PromptText(c) == WorkerPrompt(rs[c].st)[1].content

\* the prompt without and with the rejection section
PlainPrompt(c) == "criteria: " \o rs[c].st.success_criteria

RejectionPrompt(c, i) ==
    \E r \in EvaluatorOutputs :
        /\ rs[c].st.messages[i].content = FEEDBACK_PREFIX \o r.feedback
        /\ PromptText(c) = PlainPrompt(c) \o " rejected: " \o r.feedback

\* C28 as stated: the prompt of a worker run has the rejection section if and
\* only if some evaluator run earlier in the same superstep returned non-empty
\* feedback, and then with the feedback of the most recent such run.
RejectionIffAnyEarlierFeedback ==
    \A c \in Calls :
        (rs[c].pc = "running" /\ rs[c].node = "worker") =>
            IF Rejections(c) # {}
            THEN RejectionPrompt(c, Latest(Rejections(c)))
            ELSE PromptText(c) = PlainPrompt(c)

\* C28 as amended: a superstep is seeded with feedback_on_work None and both
\* flags false, whatever the checkpoint held, so its first worker run has no
\* rejection section; the prompt of a later worker run has the section if and
\* only if the most recent evaluator run of the same superstep returned
\* non-empty feedback, and then with that feedback.
RejectionIffLatestFeedback ==
    /\ [](\A c \in Calls :
            (rs[c].pc = "running" /\ rs[c].node = "worker") =>
                IF Evaluations(c) # {} /\ Latest(Evaluations(c)) \in Rejections(c)
                THEN RejectionPrompt(c, Latest(Evaluations(c)))
                ELSE PromptText(c) = PlainPrompt(c))
    /\ [][\A c \in Calls :
            AcceptedCallStep(c) =>
                /\ rs'[c].st.feedback_on_work = NONE
                /\ rs'[c].st.success_criteria_met = FALSE
                /\ rs'[c].st.user_input_needed = FALSE
                /\ rs'[c].node = "worker"
                /\ WorkerPrompt(rs'[c].st)[1].content =
                       "criteria: " \o rs'[c].st.success_criteria]_vars

\* C28 witness: the second superstep was seeded over a checkpoint that held
\* feedback and a flag; its evaluator first returned "try again" and then an
\* empty feedback, and the worker that is next gets no rejection section
RejectionWitness ==
    \E c \in Calls :
        /\ rs[c].pc = "running"
        /\ rs[c].node = "worker"
        /\ rs[c].run = 2
        /\ Len(rs[c].path) = 4
        /\ \E i \in 1..Len(rs[c].st.messages) :
              ProducedBy(rs[c].st.messages[i], "evaluator", 1)
        /\ Cardinality(Evaluations(c)) = 2
        /\ Cardinality(Rejections(c)) = 1
        /\ rs[c].st.feedback_on_work = ""
        /\ PromptText(c) = PlainPrompt(c)


-----------------------------------------------------------------------------
(* Properties of the session's lifecycle *)

\* the step in which a caller invokes run_superstep as call c
CallStep(c) ==
    /\ started' = started + 1
    /\ rs'[c].run = started'

\* C29 as stated: run_superstep is accepted if and only if the lifecycle
\* operation that completed last on the session is a successful setup; after a
\* cleanup it is rejected as not initialized until a setup succeeds.
AcceptedIffLastOpIsSetup ==
    [][\A c \in Calls :
          CallStep(c) =>
              ((rs'[c].error # "not_initialized") <=> (lastOp.op = "setup"))]_vars

\* C30 as stated: while a superstep of the session is in progress no cleanup
\* of the session runs and its browser is not released.
NoCleanupDuringSuperstep ==
    \A c \in Calls :
        (Busy(c) /\ rs[c].session = ui.sessions) =>
            /\ cleaning = 0
            /\ browser = "open"

====
